---- MODULE Spec2Model ----
(***************************************************************************)
(* Agent orchestration core of light_agent:                                *)
(*   - ToolRegistry dispatch (light_agent/agent/tools/registry.py)          *)
(*   - MCPClient remote dispatch (lightagent/agent/mcp_client.py)           *)
(*   - AgentLoop.run, the parent control loop (light_agent/agent/loop.py)   *)
(*   - SubagentManager, the subagent orchestrator                           *)
(*     (lightagent/agent/subagent.py)                                       *)
(*                                                                         *)
(* Scheduling is asyncio's: one coroutine runs at a time and control moves  *)
(* only at an await that really suspends.  Every action below is the code   *)
(* between two suspension points.  _record_result has no suspension point   *)
(* inside; it is kept as a step of its own (record / except_handler) and    *)
(* every other action is disabled while a coroutine stands in front of it,  *)
(* so no interleaving is added that the event loop cannot produce.          *)
(*                                                                         *)
(* Python strings built by f-strings are tuples of their parts.             *)
(***************************************************************************)
EXTENDS Integers, Sequences, FiniteSets, TLC

\* ------------------------------------------------------------------------
\* Bounds of the exploration (not program constants)
\* ------------------------------------------------------------------------
MaxSpawn == 2
MaxRounds == 1
MaxVaried == 1

\* ------------------------------------------------------------------------
\* Program constants
\* ------------------------------------------------------------------------
SubMaxIterations == 15
max_iterations == 10

\* Python str values are sequences of string tokens; "" is the empty sequence
None == << "<None>" >>
EmptyStr == << >>

\* ------------------------------------------------------------------------
\* Python dict (insertion ordered): a sequence of [key, value] pairs
\* ------------------------------------------------------------------------
DictKeys(d) == [i \in 1..Len(d) |-> d[i].key]

DictHas(d, k) == \E i \in 1..Len(d) : d[i].key = k

DictGet(d, k) == d[CHOOSE i \in 1..Len(d) : d[i].key = k].value

DictSet(d, k, v) ==
    IF DictHas(d, k)
    THEN [i \in 1..Len(d) |-> IF d[i].key = k THEN [key |-> k, value |-> v] ELSE d[i]]
    ELSE Append(d, [key |-> k, value |-> v])

RECURSIVE DictPop(_, _)
DictPop(d, k) ==
    IF d = << >> THEN << >>
    ELSE IF Head(d).key = k THEN Tail(d)
    ELSE << Head(d) >> \o DictPop(Tail(d), k)

SeqToSet(s) == { s[i] : i \in 1..Len(s) }

\* ------------------------------------------------------------------------
\* Tool-call directives and model replies (the model interface is the
\* environment: it returns any reply of Replies or raises)
\* ------------------------------------------------------------------------
ValidPayload == "{\"path\": \"a\"}"
EmptyPayload == "{}"
MalformedPayload == "{bad"

NoArgs == [f \in { } |-> << "a" >>]

\* json.loads on the payloads above
JsonLoads(payload) ==
    CASE payload = ValidPayload -> [ok |-> TRUE, value |-> [f \in { "path" } |-> << "a" >>]]
      [] payload = EmptyPayload -> [ok |-> TRUE, value |-> NoArgs]
      [] OTHER -> [ok |-> FALSE, value |-> NoArgs]

\* A tool name is the sequence of its parts between "__" separators:
\* "read_file" is << "read_file" >>, "fetcher__get" is << "fetcher", "get" >>
RECURSIVE NameStr(_)
NameStr(name) ==
    IF Len(name) <= 1 THEN name
    ELSE << Head(name), "__" >> \o NameStr(Tail(name))

\* a transcript that keeps the latest message first
append_first(messages, m) == << m >> \o messages

\* messages.append(m) on a transcript
append(messages, m) == Append(messages, m)

Directive(id, name, payload) == [id |-> id, name |-> name, arguments |-> payload]

BlandCalls == << Directive("call_1", << "read_file" >>, ValidPayload) >>

CallLists ==
    { BlandCalls,
      << Directive("call_1", << "read_file" >>, MalformedPayload) >>,
      << Directive("call_1", << "read_file" >>, EmptyPayload) >>,
      << Directive("call_1", << "nope" >>, ValidPayload) >>,
      << Directive("call_1", << "spawn" >>, ValidPayload) >>,
      << Directive("call_1", << "read_file" >>, ValidPayload),
         Directive("call_2", << "list_dir" >>, ValidPayload) >>,
      << Directive("call_1", << "read_file" >>, ValidPayload),
         Directive("call_2", << "read_file" >>, MalformedPayload) >> }

\* content of the n-th reply of a run: absent, empty or a text
Contents(n) == { None, EmptyStr, << "text ", ToString(n) >> }

Replies(n) ==
    [ content : Contents(n), tool_calls : { << >>, BlandCalls } ]
      \cup [ content : { None }, tool_calls : CallLists ]

\* Python truthiness of an optional str
Truthy(x) == x # None /\ x # EmptyStr

\* ------------------------------------------------------------------------
\* ToolRegistry.execute (local dispatch)
\* ------------------------------------------------------------------------
\* required parameters of the registered capabilities' schemas
Required(name) ==
    CASE name \in { << "read_file" >>, << "list_dir" >> } -> << "path" >>
      [] name = << "write_file" >> -> << "path", "content" >>
      [] OTHER -> << >>

RECURSIVE Join(_)
\* "; ".join(errors)
Join(errors) ==
    IF errors = << >> THEN << >>
    ELSE IF Len(errors) = 1 THEN Head(errors)
    ELSE Head(errors) \o << "; " >> \o Join(Tail(errors))

RECURSIVE MissingRequired(_, _)
MissingRequired(req, params) ==
    IF req = << >> THEN << >>
    ELSE IF Head(req) \in DOMAIN params THEN MissingRequired(Tail(req), params)
    ELSE << << "missing required ", Head(req) >> >> \o MissingRequired(Tail(req), params)

\* Tool.validate_params: the list of violations (here: missing required)
validate_params(name, params) == MissingRequired(Required(name), params)

ExecOutcomes == { "returns", "raises", "validator_raises" }

\* a dispatch without the look-up and without the validation
execute_any(tools, name, params, outcome) ==
    IF outcome = "raises"
    THEN << "Error executing " >> \o NameStr(name) \o << ": ", "boom" >>
    ELSE << "result of " >> \o NameStr(name)

\* the value returned by ToolRegistry.execute; it has no raising path
execute(tools, name, params, outcome) ==
    IF name \notin tools
    THEN << "Error: Tool '" >> \o NameStr(name) \o << "' not found" >>
    ELSE IF outcome = "validator_raises"
    THEN << "Error executing " >> \o NameStr(name) \o << ": ", "validator" >>
    ELSE IF validate_params(name, params) # << >>
    THEN << "Error: Invalid parameters for tool '" >> \o NameStr(name) \o << "': " >>
            \o Join(validate_params(name, params))
    ELSE IF outcome = "raises"
    THEN << "Error executing " >> \o NameStr(name) \o << ": ", "boom" >>
    ELSE << "result of " >> \o NameStr(name)

\* TRUE when the executor itself ran and raised
ExecutorFaulted(tools, name, params, outcome) ==
    /\ name \in tools
    /\ \/ outcome = "validator_raises"
       \/ outcome = "raises" /\ validate_params(name, params) = << >>

\* TRUE when tool.execute(**params) was invoked
ExecutorRan(tools, name, params, outcome) ==
    /\ name \in tools
    /\ outcome # "validator_raises"
    /\ validate_params(name, params) = << >>

\* ------------------------------------------------------------------------
\* State
\* ------------------------------------------------------------------------
VARIABLES
    running_tasks,   \* SubagentManager._running_tasks : dict task_id -> task handle
    results,         \* SubagentManager._results       : dict task_id -> entry
    sub,             \* the spawned coroutines (_run_subagent), by handle 1..Len(sub)
    sessions,        \* session collaborator: key -> messages of the session
    caller,          \* the coroutine that calls spawn / wait_for; .running is
                     \* the key set of _running_tasks when wait_for was called
    agent,           \* AgentLoop: one run of the parent control loop
    registry,        \* the parent's ToolRegistry: _tools and mcp_clients
    mcp,             \* the MCPClient objects, by name
    dispatched,      \* what the last direct dispatch handed to its caller
    budget           \* what the environment may still do in this exploration

vars == << running_tasks, results, sub, sessions, caller, agent, registry, mcp,
           dispatched, budget >>

\* the variables the orchestrator, the parent loop, the registry never touch
not_orch == << agent, registry, mcp, dispatched >>
not_loop == << running_tasks, results, sub, sessions, caller, registry, mcp, dispatched >>
not_reg == << running_tasks, results, sub, sessions, caller, agent, budget >>

Handles == 1..Len(sub)

\* a coroutine stands between two statements of one uninterrupted run
Quiescent == \A h \in Handles : sub[h].pc \notin { "record", "except" }

\* ------------------------------------------------------------------------
\* Subagent tools (no message tool, no spawn tool)
\* ------------------------------------------------------------------------
\* a subagent registry that also holds the spawn tool
SubagentToolsWithSpawn ==
    { << "read_file" >>, << "write_file" >>, << "list_dir" >>, << "exec" >>,
      << "web_search" >>, << "web_fetch" >>, << "spawn" >> }

SubagentTools ==
    { << "read_file" >>, << "write_file" >>, << "list_dir" >>, << "exec" >>,
      << "web_search" >>, << "web_fetch" >> }

Sentinel == << "Task completed but no final response was generated." >>

\* f"Error: {str(e)}"
ErrorMsg(e) == << "Error: ", e >>

\* ------------------------------------------------------------------------
\* spawn
\* ------------------------------------------------------------------------
\* the arguments of the n-th spawn call: without and with a label, from two
\* origins
SpawnInput(n) ==
    IF n % 2 = 1
    THEN [task |-> << "task one" >>, label |-> None,
          origin |-> [channel |-> "cli", chat_id |-> "direct"]]
    ELSE [task |-> << "task two" >>, label |-> << "two" >>,
          origin |-> [channel |-> "tg", chat_id |-> "42"]]

\* label or task[:30] + "..." ; the tasks of SpawnInputs are shorter than 30
\* label or task[:30] + "..."; the tasks spawned here are shorter than 30
\* characters, so the slice is the whole task and nothing is added
display_label(label, task) == IF Truthy(label) THEN label ELSE task

UsedIds == { sub[h].task_id : h \in Handles }

\* str(uuid.uuid4())[:8] read as a number, when the draw differs from every
\* earlier one
FreshId == ToString(Len(sub) + 1)

\* str(uuid.uuid4())[:8]: eight hexadecimal digits of a random value, which
\* spawn compares with nothing; the draw is a new value or that of an
\* earlier spawn
IdDraws == { FreshId } \cup UsedIds

NewSub(tid, in) ==
    [ pc |-> "created", task_id |-> tid, task |-> in.task,
      label |-> display_label(in.label, in.task), origin |-> in.origin,
      iteration |-> 0, messages |-> << >>, tool_calls |-> << >>, idx |-> 0,
      args |-> NoArgs, final_result |-> None, error_msg |-> None,
      raised |-> FALSE, faults |-> { }, session_calls |-> << >>, announcements |-> 0,
      \* what the run did, kept for the properties: how the loop ended and the
      \* last non-empty content a reply of the run carried
      outcome |-> "none", seen |-> EmptyStr,
      \* the status of the entry the unit wrote last, kept for the properties
      recorded |-> "none" ]

\* what a call handed back to the caller: a value or an exception
Returned(res, text) == [ status |-> "returned", results |-> res, summary |-> text ]
Raised == [ status |-> "raised", results |-> << >>, summary |-> EmptyStr ]
Pending == [ status |-> "none", results |-> << >>, summary |-> EmptyStr ]

\* asyncio.create_task: the coroutine is scheduled, none of it has run
create_task(coro) == [coro EXCEPT !.pc = "created"]

spawn(tid, in) ==
    /\ caller.pc = "idle"
    /\ Quiescent
    /\ Len(sub) < budget.spawn
    /\ sub' = Append(sub, create_task(NewSub(tid, in)))
    /\ running_tasks' = DictSet(running_tasks, tid, Len(sub) + 1)
    /\ caller' = [caller EXCEPT !.op = "spawn", !.arg = None, !.ids = << >>,
                                !.running = { },
                                !.ret = Returned(<< >>,
                                           << "Subagent [" >> \o display_label(in.label, in.task)
                                           \o << "] started (id: ", tid, "). I'll notify you when it completes." >>)]
    /\ UNCHANGED << results, sessions, budget, not_orch >>

\* ------------------------------------------------------------------------
\* _run_subagent, from one suspension point to the next
\* ------------------------------------------------------------------------
\* the tool-call loop from directive idx on, up to the next await: json.loads
\* of the directive, then tools.execute; after the last directive the while
\* test, then provider.generate again or the end of the loop
Advance_uncapped(s, idx) ==
    IF idx <= Len(s.tool_calls)
    THEN IF JsonLoads(s.tool_calls[idx].arguments).ok
         THEN [s EXCEPT !.pc = "execute", !.idx = idx,
                        !.args = JsonLoads(s.tool_calls[idx].arguments).value]
         ELSE [s EXCEPT !.pc = "except", !.idx = idx,
                        !.error_msg = ErrorMsg("json"),
                        !.faults = @ \cup { "parse" }]
    ELSE [s EXCEPT !.pc = "generate", !.iteration = @ + 1, !.idx = 0]

Advance(s, idx) ==
    IF idx <= Len(s.tool_calls)
    THEN IF JsonLoads(s.tool_calls[idx].arguments).ok
         THEN [s EXCEPT !.pc = "execute", !.idx = idx,
                        !.args = JsonLoads(s.tool_calls[idx].arguments).value]
         ELSE [s EXCEPT !.pc = "except", !.idx = idx,
                        !.error_msg = ErrorMsg("json"),
                        !.faults = @ \cup { "parse" }]
    ELSE IF s.iteration < SubMaxIterations
    THEN [s EXCEPT !.pc = "generate", !.iteration = @ + 1, !.idx = 0]
    ELSE [s EXCEPT !.pc = "record", !.idx = 0, !.final_result = Sentinel,
                   !.outcome = "Exhausted"]

\* the task starts: private transcript, first provider.generate
start(h) ==
    /\ h \in Handles
    /\ Quiescent
    /\ sub[h].pc = "created"
    /\ sub' = [sub EXCEPT ![h] =
                 [@ EXCEPT !.pc = "generate", !.iteration = 1,
                           !.messages = << [role |-> "system",
                                            content |-> << "# Subagent" >> \o sub[h].task],
                                           [role |-> "user", content |-> sub[h].task] >>]]
    /\ UNCHANGED << running_tasks, results, sessions, caller, budget, not_orch >>

IsBland(r) == r.content = None /\ r.tool_calls = BlandCalls

\* a reply after which the run goes on with further awaits
Continues(r) == r.tool_calls # << >> /\ JsonLoads(r.tool_calls[1].arguments).ok

\* the replies that end the run at once, one of each kind
Plain(r) == r.content # EmptyStr

\* the replies the environment gives at this point of the exploration
ReplyAllowed(iteration, r) ==
    IF Continues(r)
    THEN iteration <= budget.rounds /\ (IsBland(r) \/ budget.varied > 0)
    ELSE Plain(r) \/ budget.varied > 0

Spend(r) ==
    IF (Continues(r) /\ ~IsBland(r)) \/ (~Continues(r) /\ ~Plain(r))
    THEN [budget EXCEPT !.varied = @ - 1]
    ELSE budget

AssistantMsg(r) ==
    [ role |-> "assistant",
      content |-> IF Truthy(r.content) THEN r.content ELSE EmptyStr,
      tool_calls |-> r.tool_calls ]

\* provider.generate raises
generate_raises(h) ==
    /\ h \in Handles
    /\ Quiescent
    /\ sub[h].pc = "generate"
    /\ sub' = [sub EXCEPT ![h] =
                 [@ EXCEPT !.pc = "except", !.error_msg = ErrorMsg("model"),
                           !.faults = @ \cup { "model" }]]
    /\ UNCHANGED << running_tasks, results, sessions, caller, budget, not_orch >>

\* provider.generate returns a reply
generate_returns(h, r) ==
    /\ h \in Handles
    /\ Quiescent
    /\ sub[h].pc = "generate"
    /\ ReplyAllowed(sub[h].iteration, r)
    /\ sub' = [sub EXCEPT ![h] =
                 IF r.tool_calls # << >>
                 THEN Advance([@ EXCEPT !.messages = append(@, AssistantMsg(r)),
                                        !.tool_calls = r.tool_calls,
                                        !.seen = IF Truthy(r.content) THEN r.content ELSE @], 1)
                 ELSE [@ EXCEPT !.pc = "record", !.outcome = "Completed",
                                !.seen = IF Truthy(r.content) THEN r.content ELSE @,
                                !.final_result = IF r.content = None THEN Sentinel
                                                 ELSE r.content]]
    /\ budget' = Spend(r)
    /\ UNCHANGED << running_tasks, results, sessions, caller, not_orch >>

\* a tool message keyed by the id of the first directive of every reply
ToolMsgFirstId(call, result) ==
    [ role |-> "tool", tool_call_id |-> "call_1", name |-> call.name, content |-> result ]

ToolMsg(call, result) ==
    [ role |-> "tool", tool_call_id |-> call.id, name |-> call.name, content |-> result ]

\* tools.execute returns (it never raises); append the tool result, go on
execute_returns(h, outcome) ==
    /\ h \in Handles
    /\ Quiescent
    /\ sub[h].pc = "execute"
    /\ outcome = "returns" \/ budget.varied > 0
    /\ LET s == sub[h]
           call == s.tool_calls[s.idx]
           result == execute(SubagentTools, call.name, s.args, outcome)
           faulted == ExecutorFaulted(SubagentTools, call.name, s.args, outcome)
       IN  /\ sub' = [sub EXCEPT ![h] =
                        Advance([s EXCEPT !.messages = append(@, ToolMsg(call, result)),
                                          !.faults = IF faulted THEN @ \cup { "tool" } ELSE @],
                                s.idx + 1)]
           /\ budget' = IF outcome = "returns" THEN budget
                        ELSE [budget EXCEPT !.varied = @ - 1]
    /\ UNCHANGED << running_tasks, results, sessions, caller, not_orch >>

\* ------------------------------------------------------------------------
\* _record_result and the session collaborator
\* ------------------------------------------------------------------------
SessionFaults == { "none", "get_or_create", "add_message", "save" }

SessionKey(origin) == << origin.channel, ":", origin.chat_id >>

Announcement(label, task, result, status) ==
    << "[Subagent '" >> \o label
       \o << "' ", IF status = "ok" THEN "completed successfully" ELSE "failed", "]", "Task: " >>
       \o task \o << "Result:" >> \o result

\* SessionManager.get_or_create
get_or_create(store, key) == IF DictHas(store, key) THEN store ELSE DictSet(store, key, << >>)

\* Session.add_message
add_message(store, key, role, content) ==
    DictSet(store, key, Append(DictGet(store, key), [role |-> role, content |-> content]))

ResultEntry(s, result, status) ==
    [ task_id |-> s.task_id, label |-> s.label, task |-> s.task,
      result |-> result, status |-> status ]

\* a _record_result that stores the entry after the session calls
record_result_session_first(s, result, status, fault) ==
    LET key == SessionKey(s.origin)
        created == get_or_create(sessions, key)
        added == add_message(created, key, "system",
                             Announcement(s.label, s.task, result, status))
        call(op) == [op |-> op, key |-> key]
    IN  [ results |-> IF fault = "none"
                      THEN DictSet(results, s.task_id, ResultEntry(s, result, status))
                      ELSE results,
          sessions |-> CASE fault = "get_or_create" -> sessions
                         [] fault = "add_message" -> created
                         [] OTHER -> added,
          calls |-> CASE fault = "get_or_create" -> << call("get_or_create") >>
                      [] fault = "add_message" -> << call("get_or_create"), call("add_message") >>
                      [] OTHER -> << call("get_or_create"), call("add_message"), call("save") >>,
          appended |-> IF fault \in { "none", "save" } THEN 1 ELSE 0,
          raised |-> fault # "none" ]

\* the state left by _record_result when the session call named by fault
\* raises ("none": no call raises)
record_result(s, result, status, fault) ==
    LET key == SessionKey(s.origin)
        created == get_or_create(sessions, key)
        added == add_message(created, key, "system",
                             Announcement(s.label, s.task, result, status))
        call(op) == [op |-> op, key |-> key]
    IN  [ results |-> DictSet(results, s.task_id, ResultEntry(s, result, status)),
          sessions |-> CASE fault = "get_or_create" -> sessions
                         [] fault = "add_message" -> created
                         [] OTHER -> added,
          calls |-> CASE fault = "get_or_create" -> << call("get_or_create") >>
                      [] fault = "add_message" -> << call("get_or_create"), call("add_message") >>
                      [] OTHER -> << call("get_or_create"), call("add_message"), call("save") >>,
          appended |-> IF fault \in { "none", "save" } THEN 1 ELSE 0,
          raised |-> fault # "none" ]

\* _run_subagent returns or raises: its locals are gone, the task is done
Done(s, raised) ==
    [s EXCEPT !.pc = "finished", !.raised = raised, !.iteration = 0,
              !.messages = << >>, !.tool_calls = << >>, !.idx = 0, !.args = NoArgs,
              !.final_result = None, !.error_msg = None]

\* the session collaborator may fail at this point of the exploration
FaultAllowed(fault) == fault = "none" \/ budget.varied > 0

SpendFault(fault) ==
    IF fault = "none" THEN budget ELSE [budget EXCEPT !.varied = @ - 1]

\* the try branch: _record_result(..., final_result, origin, "ok"); return
record(h, fault) ==
    /\ h \in Handles
    /\ sub[h].pc = "record"
    /\ FaultAllowed(fault)
    /\ LET s == sub[h]
           r == record_result(s, s.final_result, "ok", fault)
           t == [s EXCEPT !.session_calls = @ \o r.calls,
                          !.announcements = @ + r.appended,
                          !.recorded = "ok"]
       IN  /\ results' = r.results
           /\ sessions' = r.sessions
           /\ sub' = [sub EXCEPT ![h] =
                        IF r.raised
                        THEN [t EXCEPT !.pc = "except", !.error_msg = ErrorMsg("session"),
                                       !.faults = @ \cup { "session" }]
                        ELSE Done(t, FALSE)]
    /\ budget' = SpendFault(fault)
    /\ UNCHANGED << running_tasks, caller, not_orch >>

\* the except branch: _record_result(..., error_msg, origin, "error"); return
except_handler(h, fault) ==
    /\ h \in Handles
    /\ sub[h].pc = "except"
    /\ FaultAllowed(fault)
    /\ LET s == sub[h]
           r == record_result(s, s.error_msg, "error", fault)
       IN  /\ results' = r.results
           /\ sessions' = r.sessions
           /\ sub' = [sub EXCEPT ![h] =
                        Done([s EXCEPT !.session_calls = @ \o r.calls,
                                       !.announcements = @ + r.appended,
                                       !.recorded = "error",
                                       !.faults = IF r.raised THEN @ \cup { "session" } ELSE @],
                             r.raised)]
    /\ budget' = SpendFault(fault)
    /\ UNCHANGED << running_tasks, caller, not_orch >>

\* the done callback registered by spawn
cleanup(h) ==
    /\ h \in Handles
    /\ Quiescent
    /\ sub[h].pc = "finished"
    /\ running_tasks' = DictPop(running_tasks, sub[h].task_id)
    /\ sub' = [sub EXCEPT ![h].pc = "cleaned"]
    /\ UNCHANGED << results, sessions, caller, budget, not_orch >>

\* ------------------------------------------------------------------------
\* wait_for
\* ------------------------------------------------------------------------
UnknownId == "doesnotexist"

WaitArgs ==
    { None, << "1" >>, << UnknownId >>, << "2", UnknownId, "1" >> }

RECURSIVE Filter(_, _)
\* [tid for tid in task_ids if tid in d]
Filter(task_ids, d) ==
    IF task_ids = << >> THEN << >>
    ELSE IF DictHas(d, Head(task_ids))
    THEN << Head(task_ids) >> \o Filter(Tail(task_ids), d)
    ELSE Filter(Tail(task_ids), d)

\* a selection that ignores the requested ids
ids_to_wait_all(task_ids) == DictKeys(running_tasks)

ids_to_wait(task_ids) ==
    IF task_ids = None THEN DictKeys(running_tasks)
    ELSE Filter(task_ids, running_tasks)

\* wait_for up to its await (or to its return when nothing is running)
wait_for(task_ids) ==
    /\ caller.pc = "idle"
    /\ Quiescent
    /\ LET ids == ids_to_wait(task_ids)
       IN  caller' =
             IF ids = << >>
             THEN [ pc |-> "idle", op |-> "wait_for", arg |-> task_ids, ids |-> << >>,
                    tasks |-> << >>, running |-> SeqToSet(DictKeys(running_tasks)),
                    ret |-> Returned(<< >>, << "No running subagents to wait for." >>) ]
             ELSE [ pc |-> "waiting", op |-> "wait_for", arg |-> task_ids, ids |-> ids,
                    tasks |-> [i \in 1..Len(ids) |-> DictGet(running_tasks, ids[i])],
                    running |-> SeqToSet(DictKeys(running_tasks)),
                    ret |-> Pending ]
    /\ UNCHANGED << running_tasks, results, sub, sessions, budget, not_orch >>

\* asyncio.gather(*tasks, return_exceptions=...): completes when every task
\* is done and its done callbacks have run; raises a task's exception unless
\* return_exceptions
gather_first_completed(tasks) == \E i \in 1..Len(tasks) : sub[tasks[i]].pc = "cleaned"

gather_done(tasks) == \A i \in 1..Len(tasks) : sub[tasks[i]].pc = "cleaned"

gather_raises_always(tasks, return_exceptions) ==
    \E i \in 1..Len(tasks) : sub[tasks[i]].raised

gather_raises(tasks, return_exceptions) ==
    ~return_exceptions /\ \E i \in 1..Len(tasks) : sub[tasks[i]].raised

UnknownEntry(tid) ==
    [ task_id |-> tid, status |-> "unknown", result |-> << "Result not found after wait." >> ]

collect(ids) ==
    [ i \in 1..Len(ids) |->
        IF DictHas(results, ids[i]) THEN DictGet(results, ids[i]) ELSE UnknownEntry(ids[i]) ]

\* wait_for from its await to its return
wait_return ==
    /\ caller.pc = "waiting"
    /\ Quiescent
    /\ gather_done(caller.tasks)
    /\ caller' =
         [caller EXCEPT
            !.pc = "idle",
            !.tasks = << >>,
            !.ret = IF gather_raises(caller.tasks, TRUE) THEN Raised
                    ELSE Returned(collect(caller.ids),
                                  << "Waited for ", ToString(Len(caller.ids)),
                                     " subagent(s)." >>)]
    /\ UNCHANGED << running_tasks, results, sub, sessions, budget, not_orch >>

\* ------------------------------------------------------------------------
\* get_running_count, get_result, list_results
\* ------------------------------------------------------------------------
\* the caller after a call that returned value (a list) and text
Read(op, arg, value, text) ==
    [ pc |-> "idle", op |-> op, arg |-> arg, ids |-> << >>, tasks |-> << >>,
      running |-> { }, ret |-> Returned(value, text) ]

\* len(self._running_tasks)
get_running_count ==
    /\ caller.pc = "idle"
    /\ Quiescent
    /\ caller' = Read("get_running_count", None, << >>, << ToString(Len(running_tasks)) >>)
    /\ UNCHANGED << running_tasks, results, sub, sessions, budget, not_orch >>

\* a look-up that takes the entry out of the table
get_result_pop(task_id) ==
    /\ caller.pc = "idle"
    /\ Quiescent
    /\ caller' = Read("get_result", << task_id >>, << >>, None)
    /\ results' = DictPop(results, task_id)
    /\ UNCHANGED << running_tasks, sub, sessions, budget, not_orch >>

\* self._results.get(task_id): the entry, or None
get_result(task_id) ==
    /\ caller.pc = "idle"
    /\ Quiescent
    /\ caller' = IF DictHas(results, task_id)
                 THEN Read("get_result", << task_id >>, << DictGet(results, task_id) >>, EmptyStr)
                 ELSE Read("get_result", << task_id >>, << >>, None)
    /\ UNCHANGED << running_tasks, results, sub, sessions, budget, not_orch >>

\* list(self._results.values())
list_results ==
    /\ caller.pc = "idle"
    /\ Quiescent
    /\ caller' = Read("list_results", None, [i \in 1..Len(results) |-> results[i].value], EmptyStr)
    /\ UNCHANGED << running_tasks, results, sub, sessions, budget, not_orch >>

\* ------------------------------------------------------------------------
\* MCPClient: connect and cleanup
\* ------------------------------------------------------------------------
\* MCPClient.__init__: no session, an empty exit stack.  pc is the await
\* connect() stands at; status, op and ret are kept for the properties: the
\* protocol state of the client and how its last operation ended
FreshClient ==
    [ session |-> FALSE, exit_stack |-> << >>, pc |-> "idle",
      status |-> "Disconnected", op |-> "none", ret |-> "none" ]

\* the client after a connect() that returned
ConnectedClient ==
    [ session |-> TRUE, exit_stack |-> << "transport", "session" >>, pc |-> "idle",
      status |-> "Connected", op |-> "connect", ret |-> "returned" ]

\* connect() up to its first await; the callers connect a client once
mcp_connect(c) ==
    /\ mcp[c].pc = "idle"
    /\ mcp[c].status \in { "Disconnected", "Failed" }
    /\ mcp' = [mcp EXCEPT ![c] = [@ EXCEPT !.pc = "transport", !.status = "Connecting",
                                           !.op = "connect", !.ret = "none"]]
    /\ UNCHANGED << registry, dispatched, not_reg >>

\* one await of connect() returns or raises: stdio_client entered on the
\* exit stack (subprocess and transport), ClientSession entered on the exit
\* stack, session.initialize(); after the last one self.session is set
connect_step(c, ok) ==
    /\ mcp[c].pc \in { "transport", "session", "initialize" }
    /\ mcp' = [mcp EXCEPT ![c] =
                 IF ~ok THEN [@ EXCEPT !.pc = "failing"]
                 ELSE CASE @.pc = "transport" ->
                              [@ EXCEPT !.pc = "session",
                                        !.exit_stack = Append(@, "transport")]
                        [] @.pc = "session" ->
                              [@ EXCEPT !.pc = "initialize",
                                        !.exit_stack = Append(@, "session")]
                        [] OTHER ->
                              [@ EXCEPT !.pc = "idle", !.session = TRUE,
                                        !.status = "Connected", !.ret = "returned"]]
    /\ UNCHANGED << registry, dispatched, not_reg >>

AcloseOutcomes == { "returns", "RuntimeError", "Exception" }

\* an aclose that stops unwinding at a callback that raises
aclose_partial(client, outcome) ==
    IF outcome = "returns" \/ client.exit_stack = << >>
    THEN [client EXCEPT !.exit_stack = << >>]
    ELSE [client EXCEPT !.exit_stack = SubSeq(@, 1, Len(@) - 1)]

\* exit_stack.aclose() inside cleanup(): every callback of the stack is
\* popped and called, also when one of them raises; cleanup() catches what
\* aclose raises
aclose(client, outcome) == [client EXCEPT !.exit_stack = << >>]

\* the except branch of connect(): await self.cleanup(); raise
connect_except(c, outcome) ==
    /\ mcp[c].pc = "failing"
    /\ mcp' = [mcp EXCEPT ![c] =
                 [aclose(@, outcome) EXCEPT !.pc = "idle", !.status = "Failed",
                                            !.ret = "raised"]]
    /\ UNCHANGED << registry, dispatched, not_reg >>

\* a cleanup() that suppresses only the RuntimeError of aclose
MCPClient_cleanup_narrow(client, outcome) ==
    [aclose(client, outcome) EXCEPT
        !.status = IF @ = "Connected" THEN "Closed" ELSE @,
        !.op = "cleanup", !.ret = IF outcome = "Exception" THEN "raised" ELSE "returned"]

\* MCPClient.cleanup: aclose of the exit stack, whatever it raises is caught
\* and logged; self.session is left as it is
MCPClient_cleanup(client, outcome) ==
    [aclose(client, outcome) EXCEPT
        !.status = IF @ = "Connected" THEN "Closed" ELSE @,
        !.op = "cleanup", !.ret = "returned"]

\* cleanup() called by the owner of the client
mcp_cleanup(c, outcome) ==
    /\ mcp[c].pc = "idle"
    /\ mcp' = [mcp EXCEPT ![c] = MCPClient_cleanup(@, outcome)]
    /\ UNCHANGED << registry, dispatched, not_reg >>

\* ------------------------------------------------------------------------
\* MCPClient.call_tool and ToolRegistry.call_tool
\* ------------------------------------------------------------------------
\* what a dispatch hands to its caller: a string, or an exception
Value(v, route) == [ raised |-> FALSE, value |-> v, route |-> route ]
Exception(e, route) == [ raised |-> TRUE, value |-> << e >>, route |-> route ]

\* tool_name.split("__")[-1]
actual_tool_name(tool_name) == << tool_name[Len(tool_name)] >>

\* MCPClient.call_tool of client c; outcome is what session.call_tool does
mcp_call_tool(c, tool_name, arguments, outcome) ==
    IF ~mcp[c].session
    THEN Value(<< "Error: Session not connected" >>, << "remote", c >>)
    ELSE IF outcome = "raises"
    THEN Exception("session.call_tool", << "remote", c >> \o actual_tool_name(tool_name))
    ELSE Value(<< "content of " >> \o actual_tool_name(tool_name),
               << "remote", c >> \o actual_tool_name(tool_name))

\* a prefix test that misses the names of exactly two segments
StartsWithDeeper(name, c) == Len(name) >= 3 /\ Head(name) = c

\* name.startswith(f"{mcp_client.name}__")
StartsWith(name, c) == Len(name) >= 2 /\ Head(name) = c

\* the clients of mcp_clients, in order, that claim the name
Claiming(name) ==
    SelectSeq(registry.mcp_clients, LAMBDA c : StartsWith(name, c))

LocalNames == SeqToSet(DictKeys(registry.tools))

\* ToolRegistry.call_tool
call_tool(name, arguments, outcome) ==
    IF Len(name) >= 2 /\ Claiming(name) # << >>
    THEN mcp_call_tool(Head(Claiming(name)), name, arguments, outcome)
    ELSE Value(execute(LocalNames, name, arguments, outcome), << "local" >>)

\* ------------------------------------------------------------------------
\* The registry used directly: register, unregister, dispatch
\* ------------------------------------------------------------------------
ToolNames == { << "read_file" >>, << "get" >>, << "fetcher", "get" >> }

DispatchNames == ToolNames \cup { << "__unknown__" >>, << "fetcher", "nested", "get" >> }

ArgMaps == { JsonLoads(ValidPayload).value, JsonLoads(EmptyPayload).value }

register(name) ==
    /\ registry' = [registry EXCEPT !.tools = DictSet(@, name, "tool")]
    /\ UNCHANGED << mcp, dispatched, not_reg >>

unregister(name) ==
    /\ registry' = [registry EXCEPT !.tools = DictPop(@, name)]
    /\ UNCHANGED << mcp, dispatched, not_reg >>

dispatch_execute(name, params, outcome) ==
    /\ dispatched' = [ op |-> "execute", name |-> name, schemas |-> << >>,
                       registered |-> name \in LocalNames,
                       ran |-> ExecutorRan(LocalNames, name, params, outcome),
                       client_status |-> "none",
                       out |-> Value(execute(LocalNames, name, params, outcome), << "local" >>) ]
    /\ UNCHANGED << registry, mcp, not_reg >>

dispatch_call_tool(name, arguments, outcome) ==
    /\ dispatched' = [ op |-> "call_tool", name |-> name, schemas |-> << >>,
                       registered |-> name \in LocalNames,
                       ran |-> /\ call_tool(name, arguments, outcome).route = << "local" >>
                               /\ ExecutorRan(LocalNames, name, arguments, outcome),
                       client_status |-> IF Len(name) >= 2 /\ Claiming(name) # << >>
                                         THEN mcp[Head(Claiming(name))].status
                                         ELSE "none",
                       out |-> call_tool(name, arguments, outcome) ]
    /\ UNCHANGED << registry, mcp, not_reg >>

\* the tools a server lists: "get" and "nested__get"
RemoteTools == << << "get" >>, << "nested", "get" >> >>

\* MCPClient.get_tools: f"{self.name}__{t.name}" for every listed tool
get_tools(c) ==
    IF mcp[c].session THEN [i \in 1..Len(RemoteTools) |-> << c >> \o RemoteTools[i]]
    ELSE << >>

RECURSIVE McpSchemas(_)
McpSchemas(clients) ==
    IF clients = << >> THEN << >>
    ELSE get_tools(Head(clients)) \o McpSchemas(Tail(clients))

\* ToolRegistry.get_all_tool_schemas
get_all_tool_schemas == DictKeys(registry.tools) \o McpSchemas(registry.mcp_clients)

\* the clients of mcp_clients whose get_tools reaches session.list_tools
Listing == SelectSeq(registry.mcp_clients, LAMBDA c : mcp[c].session)

\* get_all_tool_schemas called directly; outcome is what session.list_tools
\* does: nothing between it and the caller catches what it raises
dispatch_manifest(outcome) ==
    /\ dispatched' =
         IF outcome = "raises" /\ Listing # << >>
         THEN [ op |-> "manifest", name |-> << >>, schemas |-> << >>,
                registered |-> FALSE, ran |-> FALSE,
                client_status |-> mcp[Head(Listing)].status,
                out |-> Exception("session.list_tools", << "remote", Head(Listing) >>) ]
         ELSE [ op |-> "manifest", name |-> << >>, schemas |-> get_all_tool_schemas,
                registered |-> FALSE, ran |-> FALSE, client_status |-> "none",
                out |-> Value(<< >>, << "manifest" >>) ]
    /\ UNCHANGED << registry, mcp, not_reg >>

\* ------------------------------------------------------------------------
\* AgentLoop.run, from one suspension point to the next
\* ------------------------------------------------------------------------
UserInputs == { << "hello" >> }

NoResponse == << "Error: No response generated" >>

NoReply == [ content |-> None, tool_calls |-> << >> ]

NoCache == [ set |-> FALSE, schemas |-> << >> ]

NewAgent(long_memory) ==
    [ pc |-> "idle", long_memory |-> long_memory, messages |-> << >>,
      tool_schemas_cache |-> NoCache, tool_schemas_version |-> 0,
      i |-> 0, tool_calls |-> << >>, idx |-> 0, args |-> NoArgs,
      tool_schemas |-> << >>, final_answer |-> EmptyStr,
      \* what the run did, kept for the properties
      iterations |-> 0, last |-> NoReply, before |-> 0, prior |-> EmptyStr,
      outcome |-> "none", exc |-> "none", ret |-> None ]

\* the exception leaves run(): its locals are gone
Propagate(a, e) ==
    [a EXCEPT !.pc = "raised", !.exc = e, !.i = 0, !.tool_calls = << >>, !.idx = 0,
              !.args = NoArgs, !.tool_schemas = << >>, !.final_answer = EmptyStr]

\* run(user_input) up to the first await
run(user_input) ==
    /\ agent.pc \in { "idle", "returned", "raised" }
    /\ budget.runs > 0
    /\ agent' = [agent EXCEPT
                   !.pc = "schemas",
                   !.messages = (IF @ = << >>
                                 THEN << [role |-> "system", content |-> << "# System" >>] >>
                                 ELSE @)
                                \o << [role |-> "user", content |-> user_input] >>,
                   !.final_answer = EmptyStr, !.i = 0,
                   !.iterations = 0, !.last = NoReply, !.before = 0,
                   !.prior = EmptyStr, !.outcome = "none", !.exc = "none", !.ret = None]
    /\ budget' = [budget EXCEPT !.runs = @ - 1]
    /\ UNCHANGED not_loop

\* len(self.tools) + sum(len(mcp) for mcp in self.tools.mcp_clients): an
\* MCPClient has no length, so the sum raises as soon as there is a client
VersionRaises == registry.mcp_clients # << >>

current_version == Len(registry.tools)

\* the top of an iteration: _get_cached_tool_schemas
get_cached_tool_schemas ==
    /\ agent.pc = "schemas"
    /\ agent' =
         IF VersionRaises
         THEN Propagate(agent, "TypeError")
         ELSE IF agent.tool_schemas_cache.set /\ agent.tool_schemas_version = current_version
         THEN [agent EXCEPT !.pc = "generate",
                            !.tool_schemas = agent.tool_schemas_cache.schemas]
         ELSE [agent EXCEPT !.pc = "generate",
                            !.tool_schemas = get_all_tool_schemas,
                            !.tool_schemas_cache = [ set |-> TRUE, schemas |-> get_all_tool_schemas ],
                            !.tool_schemas_version = current_version]
    /\ UNCHANGED << budget, not_loop >>

\* the for loop from directive idx on, up to the next await: json.loads of the
\* directive, then tools.call_tool; after the last directive the next value of
\* range(max_iterations), or the end of the loop
LoopAdvance(a, idx) ==
    IF idx <= Len(a.tool_calls)
    THEN IF JsonLoads(a.tool_calls[idx].arguments).ok
         THEN [a EXCEPT !.pc = "call_tool", !.idx = idx,
                        !.args = JsonLoads(a.tool_calls[idx].arguments).value]
         ELSE Propagate(a, "json")
    ELSE IF a.i + 1 < max_iterations
    THEN [a EXCEPT !.pc = "schemas", !.i = @ + 1, !.idx = 0, !.tool_calls = << >>,
                   !.args = NoArgs]
    ELSE [a EXCEPT !.pc = "summarize", !.outcome = "Exhausted", !.idx = 0,
                   !.tool_calls = << >>, !.args = NoArgs]

\* provider.generate raises: nothing in run() catches it
loop_generate_raises ==
    /\ agent.pc = "generate"
    /\ agent' = Propagate([agent EXCEPT !.iterations = @ + 1], "model")
    /\ UNCHANGED << budget, not_loop >>

\* provider.generate returns a reply
loop_generate_returns(r) ==
    /\ agent.pc = "generate"
    /\ ReplyAllowed(agent.i + 1, r)
    /\ LET a == [agent EXCEPT
                   !.iterations = @ + 1, !.last = r,
                   !.prior = agent.final_answer,
                   !.before = Len(agent.messages),
                   !.messages = IF Truthy(r.content)
                                THEN append(@, [role |-> "assistant", content |-> r.content])
                                ELSE @,
                   !.final_answer = IF Truthy(r.content) THEN r.content ELSE @]
       IN  agent' = IF r.tool_calls = << >>
                    THEN [a EXCEPT !.pc = "summarize", !.outcome = "Completed"]
                    ELSE LoopAdvance([a EXCEPT !.tool_calls = r.tool_calls], 1)
    /\ budget' = Spend(r)
    /\ UNCHANGED not_loop

\* tools.call_tool returns or raises; a returned string becomes a tool message
loop_call_tool(outcome) ==
    /\ agent.pc = "call_tool"
    /\ outcome = "returns" \/ budget.varied > 0
    /\ LET call == agent.tool_calls[agent.idx]
           out == call_tool(call.name, agent.args, outcome)
       IN  agent' = IF out.raised
                    THEN Propagate(agent, "remote")
                    ELSE LoopAdvance([agent EXCEPT !.messages = append(@, ToolMsg(call, out.value))],
                                     agent.idx + 1)
    /\ budget' = IF outcome = "returns" THEN budget ELSE [budget EXCEPT !.varied = @ - 1]
    /\ UNCHANGED not_loop

\* return final_answer or "Error: No response generated"
run_return_value_raw(final_answer) == final_answer

run_return_value(final_answer) ==
    IF final_answer # EmptyStr THEN final_answer ELSE NoResponse

\* after the loop: _summarize (which catches what its model call raises),
\* long_memory.store when there is a long memory, then the return
summarize(store) ==
    /\ agent.pc = "summarize"
    /\ store = "returns" \/ (agent.long_memory /\ budget.varied > 0)
    /\ agent' = IF store = "returns"
                THEN [agent EXCEPT !.pc = "returned",
                                   !.ret = run_return_value(agent.final_answer),
                                   !.final_answer = EmptyStr, !.i = 0,
                                   !.tool_schemas = << >>]
                ELSE Propagate(agent, "store")
    /\ budget' = IF store = "returns" THEN budget ELSE [budget EXCEPT !.varied = @ - 1]
    /\ UNCHANGED not_loop

\* ------------------------------------------------------------------------
\* Specifications
\* ------------------------------------------------------------------------
CallerInit ==
    [ pc |-> "idle", op |-> "none", arg |-> None, ids |-> << >>, tasks |-> << >>,
      running |-> { }, ret |-> Pending ]

OrchInit ==
    /\ running_tasks = << >>
    /\ results = << >>
    /\ sub = << >>
    /\ sessions = << >>
    /\ caller = CallerInit

AgentInit == agent = NewAgent(FALSE)

McpNames == { "fetcher" }

NoDispatch ==
    [ op |-> "none", name |-> << >>, out |-> Value(<< >>, << "none" >>), schemas |-> << >>,
      \* kept for the properties: was the name in _tools at the call, and was
      \* a local tool.execute invoked
      registered |-> FALSE, ran |-> FALSE,
      \* the protocol state, at the call, of the client the call went to
      client_status |-> "none" ]

\* the registry as the application builds it: the local tools, and the MCP
\* clients it has connected
RegistryInit ==
    /\ registry \in [ tools : { << [key |-> << "read_file" >>, value |-> "tool"],
                                  [key |-> << "list_dir" >>, value |-> "tool"] >> },
                      mcp_clients : { << >>, << "fetcher" >> } ]
    /\ mcp \in [ McpNames -> { FreshClient, ConnectedClient } ]
    /\ dispatched = NoDispatch

\* the parent's registry while only the orchestrator is explored
OrchRegistryInit ==
    /\ registry = [ tools |-> << >>, mcp_clients |-> << >> ]
    /\ mcp = [ c \in McpNames |-> FreshClient ]
    /\ dispatched = NoDispatch

\* several subagents, short runs, the collaborators fail only in ways that
\* end a run
Init ==
    /\ OrchInit
    /\ AgentInit
    /\ OrchRegistryInit
    /\ budget = [ spawn |-> MaxSpawn, rounds |-> MaxRounds, varied |-> 0, runs |-> 0 ]

\* two sibling subagents, short runs, every kind of reply and fault
InitPair ==
    /\ OrchInit
    /\ AgentInit
    /\ OrchRegistryInit
    /\ budget = [ spawn |-> 2, rounds |-> MaxRounds, varied |-> MaxVaried, runs |-> 0 ]

\* one subagent, runs up to its iteration cap
InitSub ==
    /\ OrchInit
    /\ AgentInit
    /\ OrchRegistryInit
    /\ budget = [ spawn |-> 1, rounds |-> SubMaxIterations, varied |-> MaxVaried, runs |-> 0 ]

Next ==
    \/ spawn(FreshId, SpawnInput(Len(sub) + 1))
    \/ \E h \in Handles : start(h)
    \/ \E h \in Handles : generate_raises(h)
    \/ \E h \in Handles : \E r \in Replies(1) : generate_returns(h, r)
    \/ \E h \in Handles : \E outcome \in ExecOutcomes : execute_returns(h, outcome)
    \/ \E h \in Handles : \E fault \in SessionFaults : record(h, fault)
    \/ \E h \in Handles : \E fault \in SessionFaults : except_handler(h, fault)
    \/ \E h \in Handles : cleanup(h)
    \/ \E task_ids \in WaitArgs : wait_for(task_ids)
    \/ wait_return

Spec == Init /\ [][Next]_vars

SpecSub == InitSub /\ [][Next]_vars

SpecPair == InitPair /\ [][Next]_vars

\* the registry alone: registrations and direct dispatches
InitReg ==
    /\ OrchInit
    /\ AgentInit
    /\ RegistryInit
    /\ budget = [ spawn |-> 0, rounds |-> 0, varied |-> 0, runs |-> 0 ]

NextReg ==
    \/ \E name \in ToolNames : register(name)
    \/ \E name \in ToolNames : unregister(name)
    \/ \E name \in DispatchNames : \E params \in ArgMaps : \E outcome \in ExecOutcomes :
          dispatch_execute(name, params, outcome)
    \/ \E name \in DispatchNames : \E arguments \in ArgMaps : \E outcome \in ExecOutcomes :
          dispatch_call_tool(name, arguments, outcome)
    \/ \E outcome \in { "returns", "raises" } : dispatch_manifest(outcome)
    \/ \E c \in McpNames : mcp_connect(c)
    \/ \E c \in McpNames : \E ok \in BOOLEAN : connect_step(c, ok)
    \/ \E c \in McpNames : \E outcome \in AcloseOutcomes : connect_except(c, outcome)
    \/ \E c \in McpNames : \E outcome \in AcloseOutcomes : mcp_cleanup(c, outcome)

SpecReg == InitReg /\ [][NextReg]_vars

\* the parent control loop over the registry the application built
InitLoop ==
    /\ OrchInit
    /\ agent \in { NewAgent(m) : m \in BOOLEAN }
    /\ RegistryInit
    /\ budget = [ spawn |-> 0, rounds |-> max_iterations, varied |-> MaxVaried, runs |-> 1 ]

NextLoop ==
    \/ \E user_input \in UserInputs : run(user_input)
    \/ get_cached_tool_schemas
    \/ loop_generate_raises
    \/ \E r \in Replies(agent.i + 1) : loop_generate_returns(r)
    \/ \E outcome \in ExecOutcomes : loop_call_tool(outcome)
    \/ \E store \in { "returns", "raises" } : summarize(store)

SpecLoop == InitLoop /\ [][NextLoop]_vars

\* two subagents whose ids are any two draws, equal or not; one collaborator
\* fault or unusual reply at most
InitIds ==
    /\ OrchInit
    /\ AgentInit
    /\ OrchRegistryInit
    /\ budget = [ spawn |-> 2, rounds |-> MaxRounds, varied |-> 1, runs |-> 0 ]

NextIds ==
    \/ \E tid \in IdDraws : spawn(tid, SpawnInput(Len(sub) + 1))
    \/ Next

SpecIds == InitIds /\ [][NextIds]_vars

\* two subagents that may run up to their iteration cap, under an event loop
\* that runs every task and callback that is ready and collaborators that
\* return or raise: a step of a subagent, a done callback or the return of
\* wait_for that stays possible is taken
InitLive ==
    /\ OrchInit
    /\ AgentInit
    /\ OrchRegistryInit
    /\ budget = [ spawn |-> 2, rounds |-> SubMaxIterations, varied |-> 0, runs |-> 0 ]

\* the next step of the task of subagent h, or its done callback
step(h) ==
    \/ start(h)
    \/ generate_raises(h)
    \/ \E r \in Replies(1) : generate_returns(h, r)
    \/ \E outcome \in ExecOutcomes : execute_returns(h, outcome)
    \/ \E fault \in SessionFaults : record(h, fault)
    \/ \E fault \in SessionFaults : except_handler(h, fault)
    \/ cleanup(h)

Fairness ==
    /\ \A h \in 1..2 : WF_vars(step(h))
    /\ WF_vars(wait_return)

SpecLive == InitLive /\ [][NextIds]_vars /\ Fairness

\* the orchestrator with the read operations called between the steps of
\* two subagents
NextReads ==
    \/ NextIds
    \/ get_running_count
    \/ \E task_id \in UsedIds \cup { UnknownId } : get_result(task_id)
    \/ list_results

SpecReads == InitIds /\ [][NextReads]_vars

\* the parent control loop and one subagent side by side, each with at most
\* one round of directives: the caller of run() is the event loop that also
\* runs the subagent the parent has spawned
InitBoth ==
    /\ OrchInit
    /\ AgentInit
    /\ registry = [ tools |-> << [key |-> << "read_file" >>, value |-> "tool"],
                                 [key |-> << "list_dir" >>, value |-> "tool"] >>,
                    mcp_clients |-> << >> ]
    /\ mcp = [ c \in McpNames |-> FreshClient ]
    /\ dispatched = NoDispatch
    /\ budget = [ spawn |-> 1, rounds |-> 1, varied |-> MaxVaried, runs |-> 1 ]

NextBoth == Next \/ NextLoop

SpecBoth == InitBoth /\ [][NextBoth]_vars

\* the parent control loop while the owner of the registry registers and
\* unregisters tools between the steps of the run
InitManifest ==
    /\ OrchInit
    /\ AgentInit
    /\ RegistryInit
    /\ registry.mcp_clients = << >>
    /\ budget = [ spawn |-> 0, rounds |-> MaxRounds, varied |-> 0, runs |-> 1 ]

NextManifest ==
    \/ NextLoop
    \/ \E name \in ToolNames : register(name)
    \/ \E name \in ToolNames : unregister(name)

SpecManifest == InitManifest /\ [][NextManifest]_vars

\* ------------------------------------------------------------------------
\* Properties
\* ------------------------------------------------------------------------
WaitReturned == caller.op = "wait_for" /\ caller.pc = "idle"

ReturnedIds == { caller.ret.results[i].task_id : i \in 1..Len(caller.ret.results) }

Terminated(h) == sub[h].pc \in { "finished", "cleaned" }

StatusOf(h) == DictGet(results, sub[h].task_id).status

\* C1 (as claimed): wait_for() with no ids returns exactly one result per
\* spawned task, whatever happened between the spawns and the call.
C1_AllSpawnedReturned ==
    (WaitReturned /\ caller.arg = None) =>
        /\ caller.ret.status = "returned"
        /\ Len(caller.ret.results) = Cardinality(UsedIds)
        /\ ReturnedIds = UsedIds

\* two spawned tasks were given the same id
Shared(tid) == \E h, g \in Handles : h # g /\ sub[h].task_id = tid /\ sub[g].task_id = tid

\* C1 (amended): wait_for() with no ids returns exactly one result per id
\* that was in the running table when it was called, each a terminal entry
\* recorded under that id by a task spawned with it, and the entry the
\* results table holds unless two tasks share the id; these are all the
\* spawned ids when none of them had left the running table before the call.
C1_AllRunningReturned ==
    (WaitReturned /\ caller.arg = None) =>
        /\ caller.ret.status = "returned"
        /\ Len(caller.ret.results) = Cardinality(caller.running)
        /\ ReturnedIds = caller.running
        /\ \A i \in 1..Len(caller.ret.results) :
              LET r == caller.ret.results[i]
              IN  /\ r.status \in { "ok", "error" }
                  /\ DictHas(results, r.task_id)
                  /\ \E h \in Handles : sub[h].task_id = r.task_id /\ sub[h].task = r.task
                  /\ r = DictGet(results, r.task_id) \/ Shared(r.task_id)
        /\ (caller.running = UsedIds => ReturnedIds = UsedIds)

\* two subagents that ended differently were awaited and returned together
C1_Witness ==
    /\ WaitReturned /\ caller.arg = None
    /\ Len(caller.ret.results) = 2
    /\ caller.ret.results[1].status = "error"
    /\ caller.ret.results[2].status = "ok"

\* C2 (as claimed): wait_for(ids) returns the recorded result of every listed
\* id that was spawned, also of those that had completed before the call.
C2_ListedReturned ==
    (WaitReturned /\ caller.arg # None) =>
        \A i \in 1..Len(caller.arg) :
            caller.arg[i] \in UsedIds =>
                /\ DictHas(results, caller.arg[i])
                /\ \E j \in 1..Len(caller.ret.results) :
                      caller.ret.results[j] = DictGet(results, caller.arg[i])

\* C3 (as claimed): an entry of the results table is never replaced or changed.
C3_SingleTerminalTransition ==
    [][ \A i \in 1..Len(results) :
           i <= Len(results') /\ results'[i] = results[i] ]_vars

ExpectedSessionCalls(h) ==
    LET key == SessionKey(SpawnInput(h).origin)
    IN  << [op |-> "get_or_create", key |-> key],
           [op |-> "add_message", key |-> key],
           [op |-> "save", key |-> key] >>

\* C4 (as claimed): over a task's whole execution the session sequence
\* get_or_create, add_message, save is performed exactly once, on the key of
\* the origin given to spawn, so that no task is ever announced twice.
C4_AnnouncedOnce ==
    \A h \in Handles :
        /\ sub[h].announcements <= 1
        /\ (Terminated(h) /\ "session" \notin sub[h].faults) =>
               sub[h].session_calls = ExpectedSessionCalls(h)

\* C5 (as claimed): a dispatch through the registry never hands an exception
\* to its caller.
C5_DispatchNeverRaises == ~dispatched.out.raised

RunEnded == agent.pc \in { "returned", "raised" }

\* C6 (as claimed): a directive whose arguments are not valid JSON never makes
\* the control loop raise; neither the parent run nor a subagent's run ends
\* on the parse.
C6_MalformedArgsContained ==
    /\ ~(agent.pc = "raised" /\ agent.exc = "json")
    /\ \A h \in Handles : "parse" \notin sub[h].faults

\* C7 (as claimed): an exception of the model interface never leaves run().
C7_ModelFaultContained == ~(agent.pc = "raised" /\ agent.exc = "model")

\* C9 (as claimed): a run never makes more than max_iterations model calls,
\* and it ends either Completed on its first reply without directives or
\* Exhausted after exactly max_iterations replies that all carried one.
C9_IterationCount ==
    /\ agent.iterations <= max_iterations
    /\ RunEnded =>
          \/ /\ agent.outcome = "Completed"
             /\ agent.iterations >= 1
             /\ agent.last.tool_calls = << >>
          \/ /\ agent.outcome = "Exhausted"
             /\ agent.iterations = max_iterations
             /\ agent.last.tool_calls # << >>

\* the run ended on a reply without directives and run() returned
CompletedReturn == agent.pc = "returned" /\ agent.outcome = "Completed"

LastMessage == agent.messages[Len(agent.messages)]

\* C10 (as claimed): the reply that ends the run is appended to the
\* transcript and run() returns its content.
C10_LastReplyReturned ==
    CompletedReturn =>
        /\ Len(agent.messages) = agent.before + 1
        /\ LastMessage = [role |-> "assistant", content |-> agent.last.content]
        /\ agent.ret = agent.last.content

\* C10 (amended): when the reply that ends the run has a non-empty content
\* it is appended and run() returns that content; when its content is empty
\* or absent nothing is appended and run() returns the last non-empty
\* content of an earlier reply of the run, or the no-response text.
C10_CompletedAnswer ==
    (agent.outcome = "Completed" /\ agent.pc \in { "summarize", "returned" }) =>
        IF Truthy(agent.last.content)
        THEN /\ Len(agent.messages) = agent.before + 1
             /\ LastMessage = [role |-> "assistant", content |-> agent.last.content]
             /\ agent.pc = "returned" => agent.ret = agent.last.content
        ELSE /\ Len(agent.messages) = agent.before
             /\ agent.pc = "returned" =>
                   agent.ret = IF agent.prior # EmptyStr THEN agent.prior ELSE NoResponse

\* a run that ended on a reply without content and without directives, with
\* nothing said before it: run() returned the no-response text
C10_Witness ==
    /\ CompletedReturn
    /\ agent.last.content = None
    /\ agent.prior = EmptyStr
    /\ agent.ret = NoResponse

\* C8 (as claimed): a task in which a model call, a tool call or an argument
\* parse failed is recorded with status error.
C8_EveryFaultIsError ==
    \A h \in Handles :
        (Terminated(h) /\ sub[h].faults \cap { "model", "tool", "parse" } # { }) =>
            (DictHas(results, sub[h].task_id) /\ StatusOf(h) = "error")

\* C8 (amended): no fault of a unit reaches the caller of spawn or wait_for;
\* every unit that ended has recorded a terminal result under its id, whose
\* status depends on its own faults only: error when its model call, its
\* argument parse or its announcement failed, ok otherwise, a failed tool
\* call being handed to the unit as an error text by the registry; the
\* results table holds that status under the id unless two tasks share it.
C8_FaultContained ==
    /\ caller.ret.status # "raised"
    /\ \A h \in Handles :
          Terminated(h) =>
              /\ DictHas(results, sub[h].task_id)
              /\ sub[h].recorded = IF sub[h].faults \cap { "model", "parse", "session" } # { }
                                   THEN "error" ELSE "ok"
              /\ StatusOf(h) = sub[h].recorded \/ Shared(sub[h].task_id)

\* a unit whose model call failed and raised out of its handler, awaited
\* together with a sibling that completed
C8_Witness ==
    /\ WaitReturned
    /\ Len(caller.ret.results) = 2
    /\ \E h, g \in Handles :
          /\ Terminated(h) /\ Terminated(g)
          /\ "model" \in sub[h].faults /\ sub[h].raised /\ StatusOf(h) = "error"
          /\ sub[g].faults = { } /\ StatusOf(g) = "ok"

\* the last non-empty content a reply of the parent's run carried
LoopSeen == IF Truthy(agent.last.content) THEN agent.last.content ELSE agent.prior

SubResult(h) == DictGet(results, sub[h].task_id).result

\* C11 (as claimed): a loop that reaches its iteration cap ends normally and
\* returns the last non-empty content of the run, or the no-response text
\* when no reply had content; for the parent loop and for a subagent's loop.
C11_ExhaustedReturnsLastContent ==
    /\ (agent.outcome = "Exhausted" /\ RunEnded) =>
           /\ agent.pc = "returned"
           /\ agent.ret = IF LoopSeen # EmptyStr THEN LoopSeen ELSE NoResponse
    /\ \A h \in Handles :
          (Terminated(h) /\ sub[h].outcome = "Exhausted") =>
              /\ StatusOf(h) = "ok"
              /\ SubResult(h) = IF sub[h].seen # EmptyStr THEN sub[h].seen ELSE Sentinel

\* C12 (as claimed): with the client connected, a failure of the session
\* during list_tools or call_tool is never raised to the caller of the
\* manifest or of the dispatch.
C12_RemoteFailureDegrades ==
    (dispatched.op \in { "manifest", "call_tool" } /\ dispatched.client_status = "Connected") =>
        ~dispatched.out.raised

\* C13 (confirmed): a call_tool of a name server__tool, while a client named
\* server is in mcp_clients, is forwarded to that client and to no local
\* tool, whatever local tools are registered; a connected client is asked
\* for the tool named after the prefix.
C13_RemoteRouting ==
    (/\ dispatched.op = "call_tool"
     /\ Len(dispatched.name) >= 2
     /\ Head(dispatched.name) \in SeqToSet(registry.mcp_clients)) =>
        /\ dispatched.out.route[1] = "remote"
        /\ dispatched.out.route[2] = Head(dispatched.name)
        /\ (Len(dispatched.out.route) = 3 /\ Len(dispatched.name) = 2) =>
               dispatched.out.route[3] = dispatched.name[2]

\* fetcher__get was answered by the connected client fetcher while local
\* tools named get and fetcher__get are registered
C13_Witness ==
    /\ dispatched.op = "call_tool"
    /\ dispatched.name = << "fetcher", "get" >>
    /\ dispatched.out.route = << "remote", "fetcher", "get" >>
    /\ ~dispatched.out.raised
    /\ { << "get" >>, << "fetcher", "get" >> } \subseteq LocalNames

\* C14 (as claimed): no two entries of a manifest returned by
\* get_all_tool_schemas share a name.
C14_ManifestUnique ==
    (dispatched.op = "manifest" /\ ~dispatched.out.raised) =>
        \A i, j \in 1..Len(dispatched.schemas) :
            dispatched.schemas[i] = dispatched.schemas[j] => i = j

Dispatched == dispatched.op \in { "execute", "call_tool" }

NotFound(name) == << "Error: Tool '" >> \o NameStr(name) \o << "' not found" >>

C16_FailedConnectReleases ==
    \A c \in McpNames :
        /\ (mcp[c].status = "Failed" /\ mcp[c].pc = "idle") =>
               /\ mcp[c].exit_stack = << >>
               /\ ~mcp[c].session
        /\ mcp[c].op = "cleanup" => mcp[c].ret = "returned"
        /\ (mcp[c].op = "connect" /\ mcp[c].ret = "raised") => mcp[c].status = "Failed"

\* connect() of fetcher failed at the handshake, with the subprocess and the
\* session already on the exit stack, and cleanup() was called after it
C16_Witness ==
    /\ mcp["fetcher"].status = "Failed"
    /\ mcp["fetcher"].op = "cleanup"
    /\ mcp["fetcher"].ret = "returned"
    /\ mcp["fetcher"].exit_stack = << >>
    /\ ~mcp["fetcher"].session

\* C17 (as claimed): call_tool on a client that is not connected (never
\* connected, connecting, failed to connect, or closed) returns the
\* not-connected text, sends nothing and does not raise.
C17_NotConnectedIsError ==
    (dispatched.op = "call_tool"
         /\ dispatched.client_status \in { "Disconnected", "Connecting", "Failed", "Closed" }) =>
        /\ ~dispatched.out.raised
        /\ dispatched.out.value = << "Error: Session not connected" >>
        /\ Len(dispatched.out.route) = 2

\* C18 (as claimed): a step of spawn returns the acknowledgement with the
\* new task not started, its id added to the running table, which grows by
\* exactly one, and neither a result nor an announcement for that id.
C18_SpawnReturnsAtOnce ==
    [][ Len(sub') = Len(sub) + 1 =>
          LET new == sub'[Len(sub')]
          IN  /\ caller'.op = "spawn" /\ caller'.ret.status = "returned"
              /\ new.pc = "created" /\ new.announcements = 0
              /\ DictHas(running_tasks', new.task_id)
              /\ Len(running_tasks') = Len(running_tasks) + 1
              /\ ~DictHas(results', new.task_id) ]_vars

\* the tools through which the parent reaches the orchestrator or the user
ParentOnlyTools ==
    { << "spawn" >>, << "parallel_spawn" >>, << "wait_subagents" >>, << "message" >> }

\* C19 (confirmed): the registry of a subagent holds no spawn, parallel
\* spawn, wait or messaging tool; a subagent's call of one is answered with
\* the not-found text, so that it reaches no orchestrator.
C19_NoSpawnInSubagent ==
    /\ SubagentTools \cap ParentOnlyTools = { }
    /\ \A h \in Handles : \A i \in 1..Len(sub[h].messages) :
          (sub[h].messages[i].role = "tool" /\ sub[h].messages[i].name \in ParentOnlyTools) =>
              sub[h].messages[i].content = NotFound(sub[h].messages[i].name)

\* a subagent asked for spawn and was told that there is no such tool
C19_Witness ==
    \E h \in Handles : \E i \in 1..Len(sub[h].messages) :
        /\ sub[h].messages[i].role = "tool"
        /\ sub[h].messages[i].name = << "spawn" >>
        /\ sub[h].messages[i].content = NotFound(<< "spawn" >>)

\* the last call of wait_for found no requested id in the running table
NothingToWaitOn ==
    /\ caller.op = "wait_for"
    /\ IF caller.arg = None THEN caller.running = { }
       ELSE SeqToSet(caller.arg) \cap caller.running = { }

\* C20 (confirmed): when wait_for is called with no ids while the running
\* table is empty, or with ids of which none is in the running table, it
\* returns in the same step, never suspended on a task, with an empty list of
\* results and the summary "No running subagents to wait for."
C20_NothingToWaitOnReturnsAtOnce ==
    NothingToWaitOn =>
        /\ caller.pc = "idle" /\ caller.tasks = << >>
        /\ caller.ret = Returned(<< >>, << "No running subagents to wait for." >>)

\* wait_for was called with an unknown id only, while a subagent was running
C20_Witness ==
    /\ NothingToWaitOn /\ caller.arg = << UnknownId >>
    /\ caller.running # { }
    /\ caller.ret.results = << >>

\* TRUE when the last n messages of the transcript are the tool results of
\* the directives 1..n of calls, in that order, each with its directive's id
\* and name
ResultsOf(messages, calls, n) ==
    /\ n <= Len(calls) /\ n <= Len(messages)
    /\ \A j \in 1..n :
          LET m == messages[Len(messages) - n + j]
          IN  /\ m.role = "tool"
              /\ m.tool_call_id = calls[j].id
              /\ m.name = calls[j].name

\* C21 (confirmed): while directive idx of a reply is being dispatched, the
\* transcript ends with the tool results of the directives 1..idx-1 of that
\* reply, in the reply's order and each with its own call id, and with none
\* of a later directive; once the iteration is over it ends with the results
\* of all of them.  For the parent loop and for a subagent's loop.
C21_SequentialDispatch ==
    /\ agent.pc = "call_tool" =>
          /\ agent.tool_calls = agent.last.tool_calls
          /\ Len(agent.messages) =
                agent.before + (IF Truthy(agent.last.content) THEN 1 ELSE 0) + agent.idx - 1
          /\ ResultsOf(agent.messages, agent.tool_calls, agent.idx - 1)
    /\ (agent.pc \in { "schemas", "generate" } /\ agent.i > 0) =>
          /\ Len(agent.messages) =
                agent.before + (IF Truthy(agent.last.content) THEN 1 ELSE 0)
                  + Len(agent.last.tool_calls)
          /\ ResultsOf(agent.messages, agent.last.tool_calls, Len(agent.last.tool_calls))
    /\ \A h \in Handles :
          LET s == sub[h]
              n == IF s.pc = "execute" \/ (s.pc = "except" /\ s.idx > 0) THEN s.idx - 1
                   ELSE Len(s.tool_calls)
          IN  (s.pc \in { "execute", "generate", "except", "record" } /\ s.tool_calls # << >>) =>
                  /\ ResultsOf(s.messages, s.tool_calls, n)
                  /\ Len(s.messages) > n
                  /\ s.messages[Len(s.messages) - n].role = "assistant"
                  /\ s.messages[Len(s.messages) - n].tool_calls = s.tool_calls

\* the parent is dispatching the second directive of a reply, after the
\* result of the first, while a subagent is dispatching a directive of its own
C21_Witness ==
    /\ agent.pc = "call_tool" /\ agent.idx = 2
    /\ agent.messages[Len(agent.messages)].tool_call_id = "call_1"
    /\ \E h \in Handles : sub[h].pc = "execute" /\ sub[h].idx = 1

\* C22 (as claimed): the manifest an iteration hands to the model interface
\* is what get_all_tool_schemas returns when the iteration asks for it.
C22_ManifestCurrent ==
    [][ (agent.pc = "schemas" /\ agent'.pc = "generate") =>
            agent'.tool_schemas = get_all_tool_schemas ]_vars

\* C23 (as claimed): a manifest name server__t handed to call_tool reaches
\* the session of the connected client server as the remote tool t, the
\* whole remainder after the prefix, also when t itself contains "__".
C23_NameRoundTrip ==
    (/\ dispatched.op = "call_tool"
     /\ dispatched.client_status = "Connected"
     /\ \E i \in 1..Len(RemoteTools) :
           dispatched.name = << dispatched.out.route[2] >> \o RemoteTools[i]) =>
        SubSeq(dispatched.out.route, 3, Len(dispatched.out.route)) = Tail(dispatched.name)

\* C24 (confirmed): cleanup() of a client that is not inside connect(),
\* whatever its state (never connected, failed to connect, connected,
\* closed) and whatever aclose raises, returns and leaves the exit stack
\* empty, and a cleanup() after it leaves the client exactly as the first.
C24_CleanupIdempotent ==
    \A c \in McpNames :
        /\ mcp[c].op = "cleanup" => (mcp[c].ret = "returned" /\ mcp[c].exit_stack = << >>)
        /\ mcp[c].pc = "idle" =>
              \A first, second \in AcloseOutcomes :
                  LET once == MCPClient_cleanup(mcp[c], first)
                  IN  /\ once.ret = "returned" /\ once.exit_stack = << >>
                      /\ MCPClient_cleanup(once, second) = once

\* cleanup() of the connected client fetcher has returned and released the
\* session and the transport it held
C24_Witness ==
    /\ mcp["fetcher"].status = "Closed"
    /\ mcp["fetcher"].op = "cleanup" /\ mcp["fetcher"].ret = "returned"
    /\ mcp["fetcher"].exit_stack = << >>

\* C25 (as claimed): no two spawned tasks have the same id; every task that
\* has not left the running table stands there under its id, and the entry
\* of the results table under a task's id is that task's own.
C25_UniqueIds ==
    /\ \A h, g \in Handles : sub[h].task_id = sub[g].task_id => h = g
    /\ \A h \in Handles :
          /\ sub[h].pc # "cleaned" =>
                (DictHas(running_tasks, sub[h].task_id)
                    /\ DictGet(running_tasks, sub[h].task_id) = h)
          /\ Terminated(h) =>
                (DictHas(results, sub[h].task_id)
                    /\ DictGet(results, sub[h].task_id).task = sub[h].task)

\* the consequences alone: a running task whose entry of the running table
\* was taken over or removed by another task, or an ended task whose result
\* was replaced by another task's
C25_EntryLost ==
    \E h \in Handles :
        \/ /\ sub[h].pc \in { "generate", "execute" }
           /\ ~DictHas(running_tasks, sub[h].task_id)
        \/ /\ Terminated(h)
           /\ DictGet(results, sub[h].task_id).task # sub[h].task

\* C26 (as claimed): the cap of a subagent's loop is smaller than the cap of
\* the parent's loop, so no subagent makes as many model calls as the parent
\* loop may make.
C26_SubagentCapSmaller ==
    \A h \in Handles : sub[h].iteration < max_iterations

\* TRUE when t is s with messages added at its end, or s itself
Extends(s, t) == Len(s) <= Len(t) /\ SubSeq(t, 1, Len(s)) = s

\* C27 (confirmed): every step leaves the messages of the parent's
\* transcript and of every running subagent's transcript in place and only
\* adds at the end; only a step of the parent's run changes the parent's
\* transcript, a step changes at most one subagent's transcript and never
\* both a subagent's and the parent's, and the results table and the
\* sessions change only in a step in which a subagent records its result.
C27_TranscriptOwned ==
    [][ /\ Extends(agent.messages, agent'.messages)
        /\ \A h \in Handles :
              sub'[h].pc # "finished" => Extends(sub[h].messages, sub'[h].messages)
        /\ agent'.messages # agent.messages =>
              (agent.pc \in { "idle", "returned", "raised", "generate", "call_tool" } /\ sub' = sub
                  /\ results' = results /\ sessions' = sessions)
        /\ \A h, g \in Handles :
              (sub'[h].messages # sub[h].messages /\ sub'[g].messages # sub[g].messages) => h = g
        /\ (results' # results \/ sessions' # sessions) =>
              \E h \in Handles : sub[h].pc \in { "record", "except" } /\ sub'[h] # sub[h]
      ]_vars

\* the parent's transcript holds a tool result of its run while a subagent
\* holds one of its own in its private transcript
C27_Witness ==
    /\ agent.pc \in { "schemas", "generate" }
    /\ agent.messages[Len(agent.messages)].role = "tool"
    /\ \E h \in Handles :
          /\ sub[h].pc = "generate"
          /\ sub[h].messages[Len(sub[h].messages)].role = "tool"
          /\ Len(sub[h].messages) # Len(agent.messages)

ReadOps == { "wait_for", "get_running_count", "get_result", "list_results" }

C29_NoTaskLost ==
    [][ /\ \A h \in Handles :
              DictHas(running_tasks, sub[h].task_id) \/ DictHas(results, sub[h].task_id)
        /\ \A tid \in UsedIds :
              (DictHas(running_tasks, tid) /\ ~DictHas(running_tasks', tid)) =>
                  /\ DictHas(results, tid)
                  /\ DictGet(results, tid).status \in { "ok", "error" }
                  /\ results' = results
        /\ \A i \in 1..Len(caller.ret.results) : caller.ret.results[i].status # "unknown"
      ]_vars

\* wait_for has returned the result of a task that raised out of its error
\* handler, and the id of the task has left the running table
C29_Witness ==
    /\ WaitReturned
    /\ \E h \in Handles :
          /\ sub[h].pc = "cleaned" /\ sub[h].raised
          /\ sub[h].task_id \in ReturnedIds
          /\ ~DictHas(running_tasks, sub[h].task_id)
          /\ DictHas(results, sub[h].task_id)

\* every spawned subagent has recorded a terminal result, has ended and has
\* had its done callback run, and the running table is empty
AllSettled ==
    /\ \A h \in Handles :
          /\ sub[h].pc = "cleaned"
          /\ sub[h].recorded \in { "ok", "error" }
          /\ DictHas(results, sub[h].task_id)
    /\ running_tasks = << >>

\* C30 (confirmed): when every model call, tool dispatch and session call
\* returns or raises, every behaviour comes to a point from which on every
\* spawned subagent has recorded a terminal result and has left the running
\* table; no subagent makes more model calls than its iteration cap; and
\* every wait_for that is waiting returns.
C30_Liveness ==
    /\ <>[]AllSettled
    /\ [](\A h \in Handles : sub[h].iteration <= SubMaxIterations)
    /\ (caller.pc = "waiting") ~> (WaitReturned /\ caller.ret.status = "returned")

\* wait_for has returned the result of a subagent that made as many model
\* calls as its cap allows, and everything spawned has settled
C30_Witness ==
    /\ WaitReturned /\ caller.ret.status = "returned"
    /\ AllSettled
    /\ \E h \in Handles :
          /\ sub[h].outcome = "Exhausted"
          /\ sub[h].task_id \in ReturnedIds

====
